---- MODULE Spec2Model ----
(***************************************************************************)
(* Domain filter (src/main.cpp): Domain with its suffix-first operator<    *)
(* and IsSubdomain, DomainChecker with PrepareForbiddenDomains and         *)
(* IsForbidden, and main(), which reads a block-list, builds one checker   *)
(* and answers queries.                                                    *)
(*                                                                         *)
(* A domain name is a sequence of character codes (ASCII), so that         *)
(* comparing two characters is comparing two integers, as `l < r` does on  *)
(* char in the source.                                                     *)
(***************************************************************************)
EXTENDS Integers, Sequences, FiniteSets, TLC

\* ------------------------------------------------------------------ bounds

\* Longest generated line of the block-list and of the queries, in characters.
MaxLen == 2

\* Longest block-list main() reads before it builds the checker.
MaxDomains == 3

\* Longest generated operand of the comparison harness, in characters.
MaxNameLen == 3

\* ------------------------------------------------------------- characters

\* The character '.' of the comparator and of IsSubdomain.
Dot == 46

\* Characters of the generated lines: '.' and 'a' (97).
Alphabet == {Dot, 97}

\* Characters of the harness's operands: '-' (45, below '.' as a byte) too.
OrderAlphabet == {45, Dot, 97}

\* Names from the repository's tests and the spec's examples.
com == <<99, 111, 109>>
gdz_com == <<103, 100, 122, Dot, 99, 111, 109>>
gdz_ru == <<103, 100, 122, Dot, 114, 117>>
gdz_ua == <<103, 100, 122, Dot, 117, 97>>
maps_com == <<109, 97, 112, 115, Dot, 99, 111, 109>>

\* "a.a", a subdomain of "a"; "-.a", another one, its label below '.' as a
\* byte; "-a", which ends with the characters of "a" but not at a label
\* boundary.
a_a == <<97, Dot, 97>>
hyphen_a == <<45, Dot, 97>>
hyphena == <<45, 97>>

\* Every string over alphabet of at most n characters, the empty one and
\* the ones with leading, trailing or doubled dots included.
Strings(alphabet, n) == UNION {[1..k -> alphabet] : k \in 0..n}

\* The lines ReadDomains can deliver to main().
Domains == Strings(Alphabet, MaxLen) \cup {com, gdz_com, a_a, hyphen_a, hyphena}

\* The operands the comparison harness draws.
Names == Strings(OrderAlphabet, MaxNameLen) \cup {gdz_ru, gdz_ua, maps_com}

\* ------------------------------------------------------------------ Domain

\* Domain::operator== : string equality.
DomainEq(a, b) == a = b

\* Faulty variant: the characters compared as plain bytes.
CharLessBytes(l, r) == l < r

\* Faulty variant: the guard on the right-hand '.' left out.
CharLessUnguarded(l, r) == l = Dot \/ l < r

\* The comparator lambda of operator<, with '.' forced lowest.
CharLess(l, r) == (l = Dot \/ l < r) /\ (r # Dot)

\* Faulty variant: the ranges walked front to back (begin/end for rbegin/rend).
RECURSIVE LexCompareFront(_, _, _, _)
LexCompareFront(a, i, b, j) ==
    IF i = 0 \/ j = 0 THEN i = 0 /\ j # 0
    ELSE IF CharLess(a[Len(a) - i + 1], b[Len(b) - j + 1]) THEN TRUE
    ELSE IF CharLess(b[Len(b) - j + 1], a[Len(a) - i + 1]) THEN FALSE
    ELSE LexCompareFront(a, i - 1, b, j - 1)

\* std::lexicographical_compare over the two reversed ranges: i and j count
\* the characters of a and b not yet consumed, read from the back.
RECURSIVE LexCompareBack(_, _, _, _)
LexCompareBack(a, i, b, j) ==
    IF i = 0 \/ j = 0 THEN i = 0 /\ j # 0
    ELSE IF CharLess(a[i], b[j]) THEN TRUE
    ELSE IF CharLess(b[j], a[i]) THEN FALSE
    ELSE LexCompareBack(a, i - 1, b, j - 1)

\* Domain::operator<
Less(a, b) == LexCompareBack(a, Len(a), b, Len(b))

\* std::string_view::ends_with
EndsWith(s, suffix) ==
    /\ Len(s) >= Len(suffix)
    /\ SubSeq(s, Len(s) - Len(suffix) + 1, Len(s)) = suffix

\* Faulty variant: the '.' in front of both names left out.
IsSubdomainNoDot(a, b) == Len(a) >= Len(b) /\ EndsWith(a, b)

\* Domain::IsSubdomain
IsSubdomain(a, b) ==
    /\ Len(a) >= Len(b)
    /\ EndsWith(<<Dot>> \o a, <<Dot>> \o b)

\* ----------------------------------------------------------- DomainChecker

\* std::sort with operator<: insertion of each element after the elements
\* that are not greater than it. Names that are not less than one another
\* are the same string, so every sorting algorithm yields this sequence.
RECURSIVE Insert(_, _)
Insert(x, sorted) ==
    IF sorted = <<>> THEN <<x>>
    ELSE IF Less(x, Head(sorted)) THEN <<x>> \o sorted
    ELSE <<Head(sorted)>> \o Insert(x, Tail(sorted))

RECURSIVE Sort(_)
Sort(v) == IF v = <<>> THEN <<>> ELSE Insert(v[Len(v)], Sort(SubSeq(v, 1, Len(v) - 1)))

\* Faulty variant: std::unique without the predicate, i.e. with operator==.
RelatedEq(lhs, rhs) == lhs = rhs

\* The predicate lambda handed to std::unique.
Related(lhs, rhs) == IsSubdomain(lhs, rhs) \/ IsSubdomain(rhs, lhs)

\* Faulty variant: the later element of a related pair is the one kept.
RECURSIVE UniqueFromKeepLast(_, _)
UniqueFromKeepLast(kept, rest) ==
    IF rest = <<>> THEN kept
    ELSE IF Related(kept[Len(kept)], Head(rest))
         THEN UniqueFromKeepLast(SubSeq(kept, 1, Len(kept) - 1) \o <<Head(rest)>>, Tail(rest))
    ELSE UniqueFromKeepLast(Append(kept, Head(rest)), Tail(rest))

\* std::unique followed by erase: each element is compared with the last
\* element kept so far and dropped when the predicate holds. The predicate
\* is not an equivalence relation (two subdomains of one domain are related
\* to it and not to each other), which the standard asks of it; libstdc++,
\* libc++ and the MSVC library all compare with the last kept element.
RECURSIVE UniqueFrom(_, _)
UniqueFrom(kept, rest) ==
    IF rest = <<>> THEN kept
    ELSE IF Related(kept[Len(kept)], Head(rest)) THEN UniqueFrom(kept, Tail(rest))
    ELSE UniqueFrom(Append(kept, Head(rest)), Tail(rest))

Unique(v) == IF v = <<>> THEN <<>> ELSE UniqueFrom(<<Head(v)>>, Tail(v))

\* Faulty variant: the std::sort call left out.
PrepareNoSort(v) == Unique(v)

\* DomainChecker::PrepareForbiddenDomains
PrepareForbiddenDomains(v) == Unique(Sort(v))

\* Faulty variant: std::lower_bound in place of std::upper_bound.
RECURSIVE LowerBoundLoop(_, _, _, _)
LowerBoundLoop(v, x, first, len) ==
    IF len = 0 THEN first
    ELSE LET half == len \div 2
             mid == first + half
         IN IF Less(v[mid], x) THEN LowerBoundLoop(v, x, mid + 1, len - half - 1)
            ELSE LowerBoundLoop(v, x, first, half)

\* std::upper_bound: binary search for the first position whose element is
\* greater than x; Len(v) + 1 stands for end().
RECURSIVE UpperBoundLoop(_, _, _, _)
UpperBoundLoop(v, x, first, len) ==
    IF len = 0 THEN first
    ELSE LET half == len \div 2
             mid == first + half
         IN IF Less(x, v[mid]) THEN UpperBoundLoop(v, x, first, half)
            ELSE UpperBoundLoop(v, x, mid + 1, len - half - 1)

UpperBound(v, x) == UpperBoundLoop(v, x, 1, Len(v))

\* The position IsForbidden dereferences (--find_domain) once upper_bound
\* has returned pos, 0 when it returns without reading an element.
Candidate(pos) == IF pos = 1 THEN 0 ELSE pos - 1

\* Faulty variant: the candidate tested with operator== only.
IsForbiddenAtExact(v, domain, pos) ==
    IF pos = 1 THEN FALSE ELSE domain = v[Candidate(pos)]

\* The return statement of IsForbidden, pos being upper_bound's result.
IsForbiddenAt(v, domain, pos) ==
    IF pos = 1 THEN FALSE ELSE IsSubdomain(domain, v[Candidate(pos)])

\* DomainChecker::IsForbidden
IsForbidden(v, domain) == IsForbiddenAt(v, domain, UpperBound(v, domain))

Range(s) == {s[i] : i \in DOMAIN s}

\* ------------------------------------------------------------------- state

VARIABLES
    pc,                 \* where main() is: "reading", "constructed", "answered"
    domains,            \* main's forbidden_domains vector while it is read
    supplied,           \* the set of names the constructor was given
    forbidden_domains_, \* DomainChecker::forbidden_domains_
    prepare_calls,      \* how many times PrepareForbiddenDomains has run
    query,              \* the argument of the latest IsForbidden call
    find_domain,        \* the upper-bound position that call computed
    probe,              \* the position that call dereferenced, 0 for none
    answer,             \* what that call returned
    phase,              \* comparison harness: "idle", "args", "compared"
    lhs, rhs,           \* the harness's operands
    less, greater,      \* lhs < rhs, rhs < lhs
    equal,              \* lhs == rhs
    sub                 \* lhs.IsSubdomain(rhs)

mainVars == <<pc, domains, supplied, forbidden_domains_, prepare_calls,
              query, find_domain, probe, answer>>
cmpVars == <<phase, lhs, rhs, less, greater, equal, sub>>
vars == <<mainVars, cmpVars>>

\* ---------------------------------------------------------------- main()

MainInit ==
    /\ pc = "reading"
    /\ domains = <<>>
    /\ supplied = {}
    /\ forbidden_domains_ = <<>>
    /\ prepare_calls = 0
    /\ query = <<>>
    /\ find_domain = 0
    /\ probe = 0
    /\ answer = FALSE

CmpIdle ==
    /\ phase = "idle"
    /\ lhs = <<>>
    /\ rhs = <<>>
    /\ less = FALSE
    /\ greater = FALSE
    /\ equal = FALSE
    /\ sub = FALSE

Init == MainInit /\ CmpIdle

\* One iteration of ReadDomains' loop: a line becomes a Domain at the back.
ReadDomain(name) ==
    /\ pc = "reading"
    /\ Len(domains) < MaxDomains
    /\ domains' = Append(domains, name)
    /\ UNCHANGED <<pc, supplied, forbidden_domains_, prepare_calls,
                   query, find_domain, probe, answer>>
    /\ UNCHANGED cmpVars

\* The constructor: copy [begin, end), then PrepareForbiddenDomains().
\* main() never reads its own vector again, so the model keeps of it only
\* the set of names it held.
Construct ==
    /\ pc = "reading"
    /\ forbidden_domains_' = PrepareForbiddenDomains(domains)
    /\ prepare_calls' = prepare_calls + 1
    /\ supplied' = Range(domains)
    /\ domains' = <<>>
    /\ pc' = "constructed"
    /\ UNCHANGED <<query, find_domain, probe, answer>>
    /\ UNCHANGED cmpVars

\* Faulty variant: a matched entry is erased from the mutable vector.
IsForbiddenCallErasing(domain) ==
    /\ pc \in {"constructed", "answered"}
    /\ query' = domain
    /\ LET pos == UpperBound(forbidden_domains_, domain)
           hit == IsForbiddenAt(forbidden_domains_, domain, pos)
       IN /\ find_domain' = pos
          /\ probe' = Candidate(pos)
          /\ answer' = hit
          /\ forbidden_domains_' =
                IF hit THEN SubSeq(forbidden_domains_, 1, pos - 2)
                            \o SubSeq(forbidden_domains_, pos, Len(forbidden_domains_))
                ELSE forbidden_domains_
    /\ pc' = "answered"
    /\ UNCHANGED <<domains, supplied, prepare_calls>>
    /\ UNCHANGED cmpVars

\* One checker.IsForbidden(domain) call of main's output loop.
IsForbiddenCall(domain) ==
    /\ pc \in {"constructed", "answered"}
    /\ query' = domain
    /\ LET pos == UpperBound(forbidden_domains_, domain)
       IN /\ find_domain' = pos
          /\ probe' = Candidate(pos)
          /\ answer' = IsForbiddenAt(forbidden_domains_, domain, pos)
    /\ pc' = "answered"
    /\ UNCHANGED <<domains, supplied, forbidden_domains_, prepare_calls>>
    /\ UNCHANGED cmpVars

Next ==
    \/ \E name \in Domains : ReadDomain(name)
    \/ Construct
    \/ \E domain \in Domains : IsForbiddenCall(domain)

Spec == Init /\ [][Next]_vars

\* ---------------------------------------------------- comparison harness

InitOrder ==
    /\ MainInit
    /\ phase = "args"
    /\ lhs \in Names
    /\ rhs \in Names
    /\ less = FALSE
    /\ greater = FALSE
    /\ equal = FALSE
    /\ sub = FALSE

\* Apply operator<, operator== and IsSubdomain to the two operands.
Compare ==
    /\ phase = "args"
    /\ less' = Less(lhs, rhs)
    /\ greater' = Less(rhs, lhs)
    /\ equal' = DomainEq(lhs, rhs)
    /\ sub' = IsSubdomain(lhs, rhs)
    /\ phase' = "compared"
    /\ UNCHANGED <<lhs, rhs>>
    /\ UNCHANGED mainVars

NextOrder == Compare

SpecOrder == InitOrder /\ [][NextOrder]_vars

\* ------------------------------------------------- vocabulary of the claims

\* t is a literal suffix of s.
HasSuffix(s, t) == \E k \in 0..Len(s) : SubSeq(s, k + 1, Len(s)) = t

\* a equals b, or a ends with '.' followed by the whole of b.
EqualOrDotSuffix(a, b) == a = b \/ HasSuffix(a, <<Dot>> \o b)

\* The members of S that are not a proper subdomain of another member.
Topmost(S) == {d \in S : ~ \E e \in S : e # d /\ EqualOrDotSuffix(d, e)}

\* v is strictly ascending under operator<.
StrictlyAscending(v) == \A i \in 1..(Len(v) - 1) : Less(v[i], v[i + 1])

\* No element of v is a subdomain of an element at another position.
Antichain(v) ==
    \A i, j \in DOMAIN v : i # j => ~IsSubdomain(v[i], v[j])

\* The sequences of at most MaxDomains elements holding exactly the
\* distinct elements of v, in any order and with any repetition.
SameElements(v) ==
    {s \in UNION {[1..k -> Range(v)] : k \in 0..MaxDomains} : Range(s) = Range(v)}

\* The step in which the constructor runs.
ConstructStep == pc = "reading" /\ pc' = "constructed"

\* ------------------------------------------------------------------ claims

\* C1: a constructed checker answers IsForbidden(q) = true exactly when some
\* domain d of the original input equals q or q ends with "." followed by d;
\* a checker built from the empty sequence answers false to every query.
C1_ForbiddenIffInputAncestor ==
    pc = "answered" =>
        (answer <=> \E d \in supplied : EqualOrDotSuffix(query, d))

\* C1 witness: a query that is itself an input domain which normalization
\* dropped is reported forbidden.
C1_Witness ==
    /\ pc = "answered"
    /\ answer
    /\ query \in supplied
    /\ query \notin Range(forbidden_domains_)

\* C2: after construction the stored sequence is strictly ascending under
\* operator< and no element is a subdomain of an element at another position.
C2_SortedAntichain ==
    pc # "reading" =>
        StrictlyAscending(forbidden_domains_) /\ Antichain(forbidden_domains_)

\* C2 witness: three inputs, one of them redundant, stored as two.
C2_Witness ==
    /\ pc = "constructed"
    /\ Cardinality(supplied) = 3
    /\ Len(forbidden_domains_) = 2

\* C3: a.IsSubdomain(b) holds exactly when a equals b or a ends with '.'
\* followed by the whole of b, for arbitrary strings.
C3_IsSubdomainIffDotSuffix ==
    phase = "compared" => (sub <=> EqualOrDotSuffix(lhs, rhs))

\* C3 witness: lhs ends with the characters of a non-empty rhs, not at a
\* label boundary, and is found not to be a subdomain.
C3_Witness ==
    /\ phase = "compared"
    /\ ~sub
    /\ rhs # <<>>
    /\ lhs # rhs
    /\ HasSuffix(lhs, rhs)

\* C4: the constructor stores exactly the input domains that are not a proper
\* subdomain of another input domain, each once; an input that is already
\* sorted and free of ancestor/descendant pairs is stored unchanged.
C4_StoresTopmostInputs ==
    [][ConstructStep =>
          /\ Range(forbidden_domains_') = Topmost(Range(domains))
          /\ Len(forbidden_domains_') = Cardinality(Range(forbidden_domains_'))
          /\ (StrictlyAscending(domains) /\ Antichain(domains)
                => forbidden_domains_' = domains)]_vars

\* C4 witness: the input {"com", "gdz.com"} is stored as ["com"].
C4_Witness ==
    /\ pc = "constructed"
    /\ supplied = {com, gdz_com}
    /\ forbidden_domains_ = <<com>>

\* C5 as stated: gdz.ru < gdz.ua and gdz.ua < maps.com.
C5_Original ==
    phase = "compared" =>
        /\ (lhs = gdz_ru /\ rhs = gdz_ua => less)
        /\ (lhs = gdz_ua /\ rhs = maps_com => less)

\* C5 amended: gdz.ua < maps.com and maps.com < gdz.ru hold and gdz.ru <
\* gdz.ua does not; sorting the three names yields gdz.ua, maps.com, gdz.ru.
C5_SuffixOrderOfExamples ==
    phase = "compared" =>
        /\ (lhs = gdz_ua /\ rhs = maps_com => less)
        /\ (lhs = maps_com /\ rhs = gdz_ru => less)
        /\ (lhs = gdz_ru /\ rhs = gdz_ua => ~less /\ greater)
        /\ (lhs = gdz_ru /\ rhs = gdz_ua =>
                Sort(<<lhs, rhs, maps_com>>) = <<gdz_ua, maps_com, gdz_ru>>)

\* C5 witness: gdz.ru has been compared with gdz.ua and is the greater.
C5_Witness ==
    /\ phase = "compared"
    /\ lhs = gdz_ru
    /\ rhs = gdz_ua
    /\ greater

\* C6: operator< is a strict total order on arbitrary strings: irreflexive,
\* transitive, and exactly one of a < b, b < a, a == b holds.
C6_StrictTotalOrder ==
    phase = "compared" =>
        /\ ~Less(lhs, lhs)
        /\ (equal => ~less /\ ~greater)
        /\ (less => ~greater /\ ~equal)
        /\ (~less /\ ~greater => equal /\ lhs = rhs)
        /\ \A z \in Names : less /\ Less(rhs, z) => Less(lhs, z)

\* C6 witness: a name ending in '.' is found less than a name ending in
\* '-', although '-' is the lower byte.
C6_Witness ==
    /\ phase = "compared"
    /\ less
    /\ lhs # <<>> /\ lhs[Len(lhs)] = Dot
    /\ rhs # <<>> /\ rhs[Len(rhs)] = 45

\* C7: input sequences with the same distinct domains, in any order and with
\* any repetition, are stored as the same sequence, element by element.
C7_OrderAndMultiplicityIrrelevant ==
    [][ConstructStep =>
          \A s \in SameElements(domains) :
              PrepareForbiddenDomains(s) = forbidden_domains_']_vars

\* C7 witness: a checker built from two distinct unrelated domains, which
\* [x, y], [y, x] and [x, y, x] all supply.
C7_Witness ==
    /\ pc = "constructed"
    /\ Cardinality(supplied) = 2
    /\ Len(forbidden_domains_) = 2

\* C8: once the checker is constructed no IsForbidden call changes the stored
\* sequence, each answer depends on the stored sequence and the query alone,
\* and the sequence changes only in the constructor, where
\* PrepareForbiddenDomains runs exactly once.
C8_QueriesLeaveCheckerUnchanged ==
    [][/\ (pc # "reading" =>
              /\ forbidden_domains_' = forbidden_domains_
              /\ prepare_calls = 1
              /\ prepare_calls' = 1
              /\ answer' = IsForbidden(forbidden_domains_, query')
              /\ (query' = query /\ pc = "answered" => answer' = answer))
       /\ (forbidden_domains_' # forbidden_domains_ => ConstructStep)]_vars

\* C8 witness: a query has been answered "forbidden" by a checker that
\* still holds both of its entries.
C8_Witness ==
    /\ pc = "answered"
    /\ answer
    /\ prepare_calls = 1
    /\ Len(forbidden_domains_) = 2
    /\ Range(forbidden_domains_) = supplied

\* C9: when D is a subdomain of P, D < P is false, and every X with
\* P <= X <= D under operator< is a subdomain of P.
C9_SubdomainsContiguousAfterParent ==
    phase = "compared" /\ sub =>
        /\ ~less
        /\ \A x \in Names :
               ~Less(x, rhs) /\ ~Less(lhs, x) => IsSubdomain(x, rhs)

\* C9 witness: D is a proper subdomain of P and a third name lies strictly
\* between them.
C9_Witness ==
    /\ phase = "compared"
    /\ sub
    /\ lhs # rhs
    /\ \E x \in Names : Less(rhs, x) /\ Less(x, lhs)

\* C10: at most one stored element is an ancestor of the query; if there is
\* one it is the element just before the upper-bound position, which is the
\* last stored element not greater than the query; when the upper bound is
\* the first position the call returns false without reading an element,
\* and an element that is read lies inside the sequence.
C10_SingleCandidateSuffices ==
    pc = "answered" =>
        LET ancestors == {i \in DOMAIN forbidden_domains_ :
                              IsSubdomain(query, forbidden_domains_[i])}
        IN /\ Cardinality(ancestors) <= 1
           /\ \A i \in ancestors : i = find_domain - 1 /\ i = probe
           /\ find_domain \in 1..(Len(forbidden_domains_) + 1)
           /\ \A i \in DOMAIN forbidden_domains_ :
                  i < find_domain <=> ~Less(query, forbidden_domains_[i])
           /\ (find_domain = 1 => ~answer /\ probe = 0)
           /\ (probe # 0 => probe \in DOMAIN forbidden_domains_)
           /\ (answer <=> ancestors # {})

\* C10 witness: with two entries stored, a query that is a proper subdomain
\* of the first is matched against it, not against the last entry.
C10_Witness ==
    /\ pc = "answered"
    /\ answer
    /\ Len(forbidden_domains_) = 2
    /\ probe = 1
    /\ query # forbidden_domains_[1]

====
